---- MODULE Spec2Model ----
(***************************************************************************)
(* Model of miniz-compressor: the block compressor / decompressor of       *)
(* src/utilitypar.hpp (compressDataParallel, decompressDataParallel,       *)
(* doParallelWork), the directory walker (walkDirParallel) and the driver  *)
(* of src/minizparallel.cpp (main).                                        *)
(*                                                                         *)
(* Spec      one file taken through doParallelWork in compress mode and,   *)
(*           when that returned true, the produced archive taken through   *)
(*           doParallelWork in decompress mode.                            *)
(* SpecWalk  main over a list of command-line inputs on a small directory  *)
(*           tree, with walkDirParallel as an explicit stack of frames.    *)
(* SpecAll   the runs of either kind.                                      *)
(***************************************************************************)
EXTENDS Integers, Sequences, FiniteSets, TLC

(***************************************************************************)
(* Bounds of the model.                                                    *)
(***************************************************************************)
\* longest source buffer, in bytes
MaxSize == 6
\* largest value of BIG_FILE_SIZE (the single-/multi-block threshold)
MaxThreshold == 2
\* largest value of omp_get_max_threads()
MaxThreads == 2
\* width of size_t in the model: sizes are computed modulo 2^SizeBits
SizeBits == 5
\* how many failures the environment (codec, file system) injects in one run
MaxFaults == 1

SizeMod == 2 ^ SizeBits

\* size_t arithmetic: the result is reduced to the width of size_t
Wrap(x) == (x + SizeMod) % SizeMod

\* the source buffers: for every length up to MaxSize, a ramp 1, 2, 3, ...
\* (every position holds a different byte) and a flat run of one byte; 0 is
\* what a freshly allocated file holds
Buffers == {[i \in 1..n |-> 1 + k * (i - 1)] : n \in 0..MaxSize, k \in {0, 1}}

\* a path at which no file exists
NoFile == <<-1>>

Min(a, b) == IF a < b THEN a ELSE b

(***************************************************************************)
(* The codec (compress / uncompress / compressBound), as compressBlock and *)
(* decompressBlock use it: an invertible, non-identity encoding with a     *)
(* header word, a trailer checksum and a bounded expansion.                *)
(***************************************************************************)
RECURSIVE SumSeq(_)
SumSeq(s) == IF s = <<>> THEN 0 ELSE Head(s) + SumSeq(Tail(s))

compressBound(n) == Wrap(n + (n \div 2) + 3)

\* the compressed form of data
Deflate(data) ==
  <<7>> \o [i \in 1..Len(data) |-> 255 - data[i]] \o <<SumSeq(data) % 256>>

\* the bytes uncompress produces from an accepted input
Inflate(c) == [i \in 1..(Len(c) - 2) |-> 255 - c[i + 1]]

\* whether uncompress accepts input c for an output buffer of capacity cap
InflateOk(c, cap) ==
  /\ Len(c) >= 2
  /\ c[1] = 7
  /\ Len(c) - 2 <= cap
  /\ \A i \in 2..(Len(c) - 1) : c[i] \in 0..255
  /\ c[Len(c)] = SumSeq(Inflate(c)) % 256

Zeros(n) == [i \in 1..n |-> 0]

(***************************************************************************)
(* Block partition of compressDataParallel.                                *)
(***************************************************************************)
\* NumBlocksOf without the cap of twice the thread count
NumBlocksOf_nocap(size, T, threads) == Wrap(size + T - 1) \div T

\* number of blocks of the multi-block path
NumBlocksOf(size, T, threads) ==
  Min(Wrap(size + T - 1) \div T, Wrap(threads * 2))

\* length of each block but the last
BlockSizeOf(size, n) == Wrap(size + n - 1) \div n

\* offset of block i in the source
OffsetOf(i, bs) == Wrap(i * bs)

\* CurrentBlockSize giving the last block the length of the others
CurrentBlockSize_even(i, n, bs, size) == bs

\* length of block i: blockSize, or for the last block size - offset
CurrentBlockSize(i, n, bs, size) ==
  IF i < n - 1 THEN bs ELSE Wrap(size - OffsetOf(i, bs))

\* block i lies inside the mapped source [0, size)
InBounds(i, n, bs, size) ==
  OffsetOf(i, bs) + CurrentBlockSize(i, n, bs, size) <= size


(***************************************************************************)
(* Archive layout: block count, descriptors in index order, payloads in    *)
(* index order.  One element of the sequence stands for one size_t word of *)
(* the header or one byte of a payload.                                    *)
(***************************************************************************)
DataBlock(orig, cmp, idx) ==
  [originalSize |-> orig, compressedSize |-> cmp, blockIndex |-> idx]

RECURSIVE DescWords(_, _, _)
DescWords(infos, i, n) ==
  IF i >= n THEN <<>>
  ELSE <<infos[i].originalSize, infos[i].compressedSize, infos[i].blockIndex>>
         \o DescWords(infos, i + 1, n)

\* Payloads writing the blocks from the last one down to block i
RECURSIVE Payloads_descending(_, _, _, _)
Payloads_descending(infos, blocks, i, n) ==
  IF i >= n THEN <<>>
  ELSE SubSeq(blocks[n - 1], 1, infos[n - 1].compressedSize)
         \o Payloads_descending(infos, blocks, i, n - 1)

RECURSIVE Payloads(_, _, _, _)
Payloads(infos, blocks, i, n) ==
  IF i >= n THEN <<>>
  ELSE SubSeq(blocks[i], 1, infos[i].compressedSize)
         \o Payloads(infos, blocks, i + 1, n)

\* what the outFile.write calls put in the archive file
ArchiveBytes(n, infos, blocks) ==
  <<n>> \o DescWords(infos, 0, n) \o Payloads(infos, blocks, 0, n)

\* descriptor i as decompressDataParallel reads it from the mapped archive
ReadDesc(ar, i) == DataBlock(ar[2 + 3 * i], ar[3 + 3 * i], ar[4 + 3 * i])

\* sum of originalSize over descriptors 0..k-1, in size_t arithmetic
RECURSIVE SumOriginal(_, _)
SumOriginal(infos, k) ==
  IF k <= 0 THEN 0
  ELSE Wrap(SumOriginal(infos, k - 1) + infos[k - 1].originalSize)

\* sum of compressedSize over descriptors 0..k-1
RECURSIVE SumCompressed(_, _)
SumCompressed(infos, k) ==
  IF k <= 0 THEN 0
  ELSE Wrap(SumCompressed(infos, k - 1) + infos[k - 1].compressedSize)

\* position (1-based) in the archive of the payload of block i
PayloadPtr(infos, n, i) == 2 + 3 * n + SumCompressed(infos, i)

\* OutputOffset summing the compressed sizes instead of the original ones
OutputOffset_compressed(infos, i) == SumCompressed(infos, i)

\* output position of block i: sum of originalSize over blocks 0..i-1
OutputOffset(infos, i) == SumOriginal(infos, i)

\* the output mapping after data was written at offset off
WriteAt(out, off, data) ==
  [p \in 1..Len(out) |->
     IF off < p /\ p <= off + Len(data) THEN data[p - off] ELSE out[p]]

\* the bytes compressBlock reads for [off, off + len): past the end of the
\* file the mapping's last page reads as zeros
ReadSource(buf, off, len) ==
  [p \in 1..len |-> IF off + p <= Len(buf) THEN buf[off + p] ELSE 0]

\* a vector resized to n elements holding data in front
Padded(data, n) == [p \in 1..n |-> IF p <= Len(data) THEN data[p] ELSE 0]

(***************************************************************************)
(* State of one file's processing (Spec).                                  *)
(***************************************************************************)
VARIABLES
  B,                    \* the source file's content before the run
  BIG_FILE_SIZE,        \* threshold between single- and multi-block mode
  num_threads,          \* omp_get_max_threads()
  REMOVE_ORIGIN,        \* removal flag
  COMP,                 \* mode of the current run: TRUE compress, FALSE decompress
  pc,                   \* position of the run
  disk,                 \* files: orig (fname), zip (fname + SUFFIX)
  mapped,               \* live mappings: "src" (mapFile), "out" (allocateFile)
  faults,               \* failures the environment has injected so far
  numBlocks,
  blockSize,
  blockInfos,           \* vector<DataBlock>, index 0..numBlocks-1
  compressedBlocks,     \* compress: per-block output vectors
  blockPtr,             \* decompress: start of each payload in the archive
  totalSize,            \* decompress: size the output file is allocated with
  compressionSuccess,
  decompressionSuccess,
  task,                 \* per task: "todo", "run" (codec call returned), "done"
  success,              \* per task: the local `success`: "none" before the call,
                        \* then "yes" or "no"
  compressedSize,       \* per task: the local `compressedSize`
  cres,                 \* result of the compress run: "none", "ok", "fail"
  dres                  \* result of the decompress run

(***************************************************************************)
(* State of the driver and the directory walker (SpecWalk).                *)
(***************************************************************************)
VARIABLES
  argv,                 \* the command-line inputs, from argv[start] on
  argi,                 \* main: index of the input being processed
  mpc,                  \* main: "loop", "walk" (in walkDirParallel), "exit", "aborted"
  msuccess,             \* main: the local `success`
  exitStatus,           \* main: the value returned
  cwd,                  \* the process's current working directory
  fs,                   \* the regular files of every directory
  stack,                \* the walkDirParallel frames, innermost last
  ret,                  \* value the last walkDirParallel call returned: "none", "ok", "fail"
  results,              \* what each input's operation returned, in order
  worked                \* <<directory, name>> of every doParallelWork call made

walkVars ==
  <<argv, argi, mpc, msuccess, exitStatus, cwd, fs, stack, ret, results, worked>>

\* inputs of one file's processing
cfgVars == <<B, BIG_FILE_SIZE, num_threads, REMOVE_ORIGIN>>

regionVars ==
  <<numBlocks, blockSize, blockInfos, compressedBlocks, blockPtr, totalSize,
    compressionSuccess, decompressionSuccess, task, success, compressedSize>>

Blocks == 0..(numBlocks - 1)

\* outcomes of a call the environment may fail: it succeeds, or fails while the
\* fault budget lasts
EnvOutcomes == IF faults < MaxFaults THEN {TRUE, FALSE} ELSE {TRUE}

Charge(ok) == faults' = IF ok THEN faults ELSE faults + 1

\* the run returns r from compressDataParallel / decompressDataParallel
Return(r) ==
  /\ pc' = "w_unmap"
  /\ IF COMP THEN cres' = r /\ UNCHANGED dres ELSE dres' = r /\ UNCHANGED cres

Running == {i \in Blocks : task[i] = "run"}

Init ==
  /\ B \in Buffers
  /\ BIG_FILE_SIZE \in 1..MaxThreshold
  /\ num_threads \in 1..MaxThreads
  /\ REMOVE_ORIGIN \in BOOLEAN
  /\ COMP = TRUE
  /\ pc = "w_map"
  /\ disk = [orig |-> B, zip |-> NoFile]
  /\ mapped = {}
  /\ faults = 0
  /\ numBlocks = 0
  /\ blockSize = 0
  /\ blockInfos = <<>>
  /\ compressedBlocks = <<>>
  /\ blockPtr = <<>>
  /\ totalSize = 0
  /\ compressionSuccess = TRUE
  /\ decompressionSuccess = TRUE
  /\ task = <<>>
  /\ success = <<>>
  /\ compressedSize = <<>>
  /\ cres = "none"
  /\ dres = "none"
  /\ argv = <<>>
  /\ argi = 0
  /\ mpc = "idle"
  /\ msuccess = TRUE
  /\ exitStatus = 0
  /\ cwd = 0
  /\ fs = <<>>
  /\ stack = <<>>
  /\ ret = "none"
  /\ results = <<>>
  /\ worked = {}


(***************************************************************************)
(* doParallelWork: map the file, compress or decompress, unmap.            *)
(***************************************************************************)
DoWorkMap ==
  /\ pc = "w_map"
  /\ \E ok \in EnvOutcomes :
       /\ Charge(ok)
       /\ IF ok
          THEN /\ mapped' = mapped \cup {"src"}
               /\ pc' = IF COMP THEN "c_enter" ELSE "d_enter"
               /\ UNCHANGED <<cres, dres>>
          ELSE /\ mapped' = mapped
               /\ pc' = "w_ret"
               /\ IF COMP THEN cres' = "fail" /\ UNCHANGED dres
                          ELSE dres' = "fail" /\ UNCHANGED cres
  /\ UNCHANGED <<cfgVars, walkVars, COMP, disk, regionVars>>

DoWorkUnmap ==
  /\ pc = "w_unmap"
  /\ mapped' = mapped \ {"src"}
  /\ pc' = "w_ret"
  /\ UNCHANGED <<cfgVars, walkVars, COMP, disk, faults, regionVars, cres, dres>>

(***************************************************************************)
(* compressDataParallel.  The mapped source is B (the mapping outlives an  *)
(* unlink of the file).                                                    *)
(***************************************************************************)
\* outcomes of the codec call of block i of the taskloop:
\*   "ok"    compressBlock returns true
\*   "fault" the codec fails on a valid block (charged to the fault budget)
\*   "fail"  the codec rejects a block whose length wrapped around
\*   "abort" the block lies outside the mapping: the read faults, or resizing
\*           the output vector to the bound of a wrapped length throws inside
\*           the task, and the process terminates
CodecOutcomes(i) ==
  LET size == Len(B)
      cbs  == CurrentBlockSize(i, numBlocks, blockSize, size)
  IN  (IF cbs > size THEN {"fail"} ELSE {"ok"})
        \cup (IF cbs <= size /\ faults < MaxFaults THEN {"fault"} ELSE {})
        \cup (IF InBounds(i, numBlocks, blockSize, size) THEN {} ELSE {"abort"})

\* entry: the single-block path up to the codec call (success[0] holds what
\* compressBlock returned), or the set-up of the multi-block path
CompressEnter ==
  /\ pc = "c_enter"
  /\ LET size == Len(B) IN
     IF size <= BIG_FILE_SIZE
     THEN \E ok \in EnvOutcomes :
            /\ Charge(ok)
            /\ success' = [i \in {0} |-> IF ok THEN "yes" ELSE "no"]
            /\ IF ok
               THEN /\ numBlocks' = 1
                    /\ blockInfos' =
                         [i \in {0} |-> DataBlock(size, Len(Deflate(B)), 0)]
                    /\ compressedBlocks' =
                         [i \in {0} |-> Padded(Deflate(B), compressBound(size))]
                    /\ pc' = "c_write"
                    /\ UNCHANGED <<cres, dres>>
               ELSE /\ Return("fail")
                    /\ UNCHANGED <<numBlocks, blockInfos, compressedBlocks>>
            /\ UNCHANGED <<blockSize, compressionSuccess, task, compressedSize>>
     ELSE LET n == NumBlocksOf(size, BIG_FILE_SIZE, num_threads) IN
            /\ numBlocks' = n
            /\ blockSize' = BlockSizeOf(size, n)
            /\ blockInfos' = [i \in 0..(n - 1) |-> DataBlock(0, 0, 0)]
            /\ compressedBlocks' = [i \in 0..(n - 1) |-> <<>>]
            /\ compressionSuccess' = TRUE
            /\ task' = [i \in 0..(n - 1) |-> "todo"]
            /\ success' = [i \in 0..(n - 1) |-> "none"]
            /\ compressedSize' = [i \in 0..(n - 1) |-> 0]
            /\ pc' = "c_region"
            /\ UNCHANGED <<faults, cres, dres>>
  /\ UNCHANGED <<cfgVars, walkVars, COMP, disk, mapped, blockPtr, totalSize,
                 decompressionSuccess>>

\* one iteration of the taskloop up to the return of compressBlock
CompressTaskRun(i) ==
  /\ pc = "c_region"
  /\ task[i] = "todo"
  /\ Cardinality(Running) < num_threads
  /\ LET size   == Len(B)
         offset == OffsetOf(i, blockSize)
         cbs    == CurrentBlockSize(i, numBlocks, blockSize, size)
         bound  == compressBound(cbs)
         out    == Deflate(ReadSource(B, offset, cbs))
     IN \E o \in CodecOutcomes(i) :
          IF o = "abort"
          THEN /\ pc' = "aborted"
               /\ UNCHANGED <<faults, blockInfos, compressedBlocks, task,
                              success, compressedSize>>
          ELSE /\ pc' = pc
               /\ faults' = IF o = "fault" THEN faults + 1 ELSE faults
               /\ blockInfos' =
                    [blockInfos EXCEPT ![i] = DataBlock(cbs, @.compressedSize, i)]
               /\ compressedBlocks' =
                    [compressedBlocks EXCEPT
                       ![i] = IF o = "ok" THEN Padded(out, bound) ELSE Zeros(bound)]
               /\ success' = [success EXCEPT ![i] = IF o = "ok" THEN "yes" ELSE "no"]
               /\ compressedSize' =
                    [compressedSize EXCEPT ![i] = IF o = "ok" THEN Len(out) ELSE bound]
               /\ task' = [task EXCEPT ![i] = "run"]
  /\ UNCHANGED <<cfgVars, walkVars, COMP, disk, mapped, numBlocks, blockSize, blockPtr,
                 totalSize, compressionSuccess, decompressionSuccess, cres, dres>>

\* the rest of the iteration: the failure flag under the critical section, or
\* the compressed size and the final resize
CompressTaskEnd(i) ==
  /\ pc = "c_region"
  /\ task[i] = "run"
  /\ IF success[i] = "no"
     THEN /\ compressionSuccess' = FALSE
          /\ UNCHANGED <<blockInfos, compressedBlocks>>
     ELSE /\ blockInfos' =
               [blockInfos EXCEPT ![i].compressedSize = compressedSize[i]]
          /\ compressedBlocks' =
               [compressedBlocks EXCEPT ![i] = SubSeq(@, 1, compressedSize[i])]
          /\ UNCHANGED compressionSuccess
  /\ task' = [task EXCEPT ![i] = "done"]
  /\ UNCHANGED <<cfgVars, walkVars, COMP, pc, disk, mapped, faults, numBlocks, blockSize,
                 blockPtr, totalSize, decompressionSuccess, success,
                 compressedSize, cres, dres>>

\* CompressJoin leaving the region as soon as the failure flag is down, the
\* remaining iterations never run
CompressJoin_shortcircuit ==
  /\ pc = "c_region"
  /\ (~compressionSuccess \/ \A i \in Blocks : task[i] = "done")
  /\ IF ~compressionSuccess
     THEN Return("fail")
     ELSE pc' = "c_write" /\ UNCHANGED <<cres, dres>>
  /\ UNCHANGED <<cfgVars, walkVars, COMP, disk, mapped, faults, regionVars>>

\* CompressJoin not testing the failure flag
CompressJoin_ignoreflag ==
  /\ pc = "c_region"
  /\ \A i \in Blocks : task[i] = "done"
  /\ pc' = "c_write"
  /\ UNCHANGED <<cfgVars, walkVars, COMP, disk, mapped, faults, regionVars, cres, dres>>

\* end of the parallel region and the test of the failure flag
CompressJoin ==
  /\ pc = "c_region"
  /\ \A i \in Blocks : task[i] = "done"
  /\ IF ~compressionSuccess
     THEN Return("fail")
     ELSE pc' = "c_write" /\ UNCHANGED <<cres, dres>>
  /\ UNCHANGED <<cfgVars, walkVars, COMP, disk, mapped, faults, regionVars>>

\* open the archive, write count, descriptors and payloads, remove the source
CompressWrite ==
  /\ pc = "c_write"
  /\ \E ok \in EnvOutcomes :
       /\ Charge(ok)
       /\ IF ok
          THEN /\ disk' =
                    [orig |-> IF REMOVE_ORIGIN THEN NoFile ELSE disk.orig,
                     zip  |-> ArchiveBytes(numBlocks, blockInfos, compressedBlocks)]
               /\ Return("ok")
          ELSE /\ disk' = disk
               /\ Return("fail")
  /\ UNCHANGED <<cfgVars, walkVars, COMP, mapped, regionVars>>


(***************************************************************************)
(* decompressDataParallel.  The mapped archive is disk.zip; the output     *)
(* file is disk.orig (fname without SUFFIX), written through its mapping.  *)
(***************************************************************************)
\* the payload of block i as decompressBlock is handed it
PayloadOf(ar, i) ==
  SubSeq(ar, blockPtr[i], blockPtr[i] + blockInfos[i].compressedSize - 1)

\* entry: read the header and the descriptors, allocate and map the output
DecompressEnter ==
  /\ pc = "d_enter"
  /\ LET ar    == disk.zip
         n     == ar[1]
         infos == [i \in 0..(n - 1) |-> ReadDesc(ar, i)]
         total == IF n = 1 THEN infos[0].originalSize ELSE SumOriginal(infos, n)
     IN \E ok \in EnvOutcomes :
          /\ Charge(ok)
          /\ IF ok
             THEN /\ numBlocks' = n
                  /\ blockInfos' = infos
                  /\ totalSize' = total
                  /\ disk' = [disk EXCEPT !.orig = Zeros(total)]
                  /\ mapped' = mapped \cup {"out"}
                  /\ blockPtr' = [i \in 0..(n - 1) |-> PayloadPtr(infos, n, i)]
                  /\ decompressionSuccess' = TRUE
                  /\ task' = [i \in 0..(n - 1) |-> "todo"]
                  /\ success' = [i \in 0..(n - 1) |-> "none"]
                  /\ pc' = IF n = 1 THEN "d_single" ELSE "d_region"
                  /\ UNCHANGED <<cres, dres>>
             ELSE /\ Return("fail")
                  /\ UNCHANGED <<numBlocks, blockInfos, totalSize, disk, mapped,
                                 blockPtr, decompressionSuccess, task, success>>
  /\ UNCHANGED <<cfgVars, walkVars, COMP, blockSize, compressedBlocks, compressionSuccess,
                 compressedSize>>

\* DecompressSingle keeping the output mapped when decompressBlock fails
DecompressSingle_leak ==
  /\ pc = "d_single"
  /\ LET c == PayloadOf(disk.zip, 0) IN
     \E env \in EnvOutcomes :
       LET ok == env /\ InflateOk(c, blockInfos[0].originalSize) IN
         /\ Charge(env)
         /\ success' = [success EXCEPT ![0] = IF ok THEN "yes" ELSE "no"]
         /\ task' = [task EXCEPT ![0] = "done"]
         /\ mapped' = IF ok THEN mapped \ {"out"} ELSE mapped
         /\ IF ok
            THEN /\ disk' =
                      [orig |-> WriteAt(disk.orig, 0, Inflate(c)),
                       zip  |-> IF REMOVE_ORIGIN THEN NoFile ELSE disk.zip]
                 /\ Return("ok")
            ELSE /\ disk' = disk
                 /\ Return("fail")
  /\ UNCHANGED <<cfgVars, walkVars, COMP, numBlocks, blockSize, blockInfos,
                 compressedBlocks, blockPtr, totalSize, compressionSuccess,
                 decompressionSuccess, compressedSize>>

\* single-block path: decompress, unmap the output, remove the archive
DecompressSingle ==
  /\ pc = "d_single"
  /\ LET c == PayloadOf(disk.zip, 0) IN
     \E env \in EnvOutcomes :
       LET ok == env /\ InflateOk(c, blockInfos[0].originalSize) IN
         /\ Charge(env)
         /\ success' = [success EXCEPT ![0] = IF ok THEN "yes" ELSE "no"]
         /\ task' = [task EXCEPT ![0] = "done"]
         /\ mapped' = mapped \ {"out"}
         /\ IF ok
            THEN /\ disk' =
                      [orig |-> WriteAt(disk.orig, 0, Inflate(c)),
                       zip  |-> IF REMOVE_ORIGIN THEN NoFile ELSE disk.zip]
                 /\ Return("ok")
            ELSE /\ disk' = disk
                 /\ Return("fail")
  /\ UNCHANGED <<cfgVars, walkVars, COMP, numBlocks, blockSize, blockInfos,
                 compressedBlocks, blockPtr, totalSize, compressionSuccess,
                 decompressionSuccess, compressedSize>>

\* DecompressTaskRun writing every block at the start of the output mapping
DecompressTaskRun_atzero(i) ==
  /\ pc = "d_region"
  /\ task[i] = "todo"
  /\ Cardinality(Running) < num_threads
  /\ LET c == PayloadOf(disk.zip, i)
     IN \E env \in EnvOutcomes :
          LET ok == env /\ InflateOk(c, blockInfos[i].originalSize) IN
            /\ Charge(env)
            /\ success' = [success EXCEPT ![i] = IF ok THEN "yes" ELSE "no"]
            /\ task' = [task EXCEPT ![i] = IF ok THEN "done" ELSE "run"]
            /\ disk' = IF ok
                       THEN [disk EXCEPT !.orig = WriteAt(@, 0, Inflate(c))]
                       ELSE disk
  /\ UNCHANGED <<cfgVars, walkVars, COMP, pc, mapped, numBlocks, blockSize, blockInfos,
                 compressedBlocks, blockPtr, totalSize, compressionSuccess,
                 decompressionSuccess, compressedSize, cres, dres>>

\* one iteration of the taskloop up to the return of decompressBlock; an
\* iteration whose call succeeded has nothing left to do
DecompressTaskRun(i) ==
  /\ pc = "d_region"
  /\ task[i] = "todo"
  /\ Cardinality(Running) < num_threads
  /\ LET c            == PayloadOf(disk.zip, i)
         outputOffset == OutputOffset(blockInfos, i)
     IN \E env \in EnvOutcomes :
          LET ok == env /\ InflateOk(c, blockInfos[i].originalSize) IN
            /\ Charge(env)
            /\ success' = [success EXCEPT ![i] = IF ok THEN "yes" ELSE "no"]
            /\ task' = [task EXCEPT ![i] = IF ok THEN "done" ELSE "run"]
            /\ disk' = IF ok
                       THEN [disk EXCEPT
                               !.orig = WriteAt(@, outputOffset, Inflate(c))]
                       ELSE disk
  /\ UNCHANGED <<cfgVars, walkVars, COMP, pc, mapped, numBlocks, blockSize, blockInfos,
                 compressedBlocks, blockPtr, totalSize, compressionSuccess,
                 decompressionSuccess, compressedSize, cres, dres>>

\* the failure flag under the critical section
DecompressTaskEnd(i) ==
  /\ pc = "d_region"
  /\ task[i] = "run"
  /\ decompressionSuccess' = FALSE
  /\ task' = [task EXCEPT ![i] = "done"]
  /\ UNCHANGED <<cfgVars, walkVars, COMP, pc, disk, mapped, faults, numBlocks, blockSize,
                 blockInfos, compressedBlocks, blockPtr, totalSize,
                 compressionSuccess, success, compressedSize, cres, dres>>

\* DecompressJoin deleting the output file when a block failed
DecompressJoin_cleanup ==
  /\ pc = "d_region"
  /\ \A i \in Blocks : task[i] = "done"
  /\ mapped' = mapped \ {"out"}
  /\ IF ~decompressionSuccess
     THEN /\ disk' = [disk EXCEPT !.orig = NoFile]
          /\ Return("fail")
     ELSE /\ disk' = [disk EXCEPT !.zip = IF REMOVE_ORIGIN THEN NoFile ELSE @]
          /\ Return("ok")
  /\ UNCHANGED <<cfgVars, walkVars, COMP, faults, regionVars>>

\* DecompressJoin removing the archive before it tests the failure flag
DecompressJoin_unlinkfirst ==
  /\ pc = "d_region"
  /\ \A i \in Blocks : task[i] = "done"
  /\ mapped' = mapped \ {"out"}
  /\ disk' = [disk EXCEPT !.zip = IF REMOVE_ORIGIN THEN NoFile ELSE @]
  /\ Return(IF ~decompressionSuccess THEN "fail" ELSE "ok")
  /\ UNCHANGED <<cfgVars, walkVars, COMP, faults, regionVars>>

\* DecompressJoin not waiting for the tasks of the region
DecompressJoin_nowait ==
  /\ pc = "d_region"
  /\ mapped' = mapped \ {"out"}
  /\ IF ~decompressionSuccess
     THEN /\ disk' = disk
          /\ Return("fail")
     ELSE /\ disk' = [disk EXCEPT !.zip = IF REMOVE_ORIGIN THEN NoFile ELSE @]
          /\ Return("ok")
  /\ UNCHANGED <<cfgVars, walkVars, COMP, faults, regionVars>>

\* end of the parallel region: unmap the output, test the flag, remove the archive
DecompressJoin ==
  /\ pc = "d_region"
  /\ \A i \in Blocks : task[i] = "done"
  /\ mapped' = mapped \ {"out"}
  /\ IF ~decompressionSuccess
     THEN /\ disk' = disk
          /\ Return("fail")
     ELSE /\ disk' = [disk EXCEPT !.zip = IF REMOVE_ORIGIN THEN NoFile ELSE @]
          /\ Return("ok")
  /\ UNCHANGED <<cfgVars, walkVars, COMP, faults, regionVars>>

\* the archive a successful compress run left is given to a decompress run
RunDecompress ==
  /\ pc = "w_ret"
  /\ COMP
  /\ cres = "ok"
  /\ COMP' = FALSE
  /\ pc' = "w_map"
  /\ UNCHANGED <<cfgVars, walkVars, disk, mapped, faults, regionVars, cres, dres>>

Next ==
  \/ DoWorkMap
  \/ DoWorkUnmap
  \/ CompressEnter
  \/ \E i \in Blocks : CompressTaskRun(i)
  \/ \E i \in Blocks : CompressTaskEnd(i)
  \/ CompressJoin
  \/ CompressWrite
  \/ DecompressEnter
  \/ DecompressSingle
  \/ \E i \in Blocks : DecompressTaskRun(i)
  \/ \E i \in Blocks : DecompressTaskEnd(i)
  \/ DecompressJoin
  \/ RunDecompress

(***************************************************************************)
(* The directory tree of SpecWalk.  A name is <<base, k>>: base followed   *)
(* by k copies of SUFFIX.  Directory 0 is the directory the program is     *)
(* started in; it holds x, a/, y.zip; a/ holds x, c/, y.zip, w, d/, z.zip; *)
(* a/c/ holds x, y.zip, w, z.zip; a/d/ holds x.                            *)
(***************************************************************************)
\* longest list of command-line inputs
MaxArgs == 2

SubDirs == 1..3

\* parent directory and name of every subdirectory
ParentOf == <<0, 1, 1>>
DirBase == <<"a", "c", "d">>

NoDir == -1

\* the bases readdir walks through, per directory, in readdir's order
Slots(d) ==
  CASE d = 0 -> <<"x", "a", "y">>
    [] d = 1 -> <<"x", "c", "y", "w", "d", "z">>
    [] d = 2 -> <<"x", "y", "w", "z">>
    [] OTHER -> <<"x">>

\* the files every directory holds at the start
InitialFs ==
  [d \in 0..3 |->
     CASE d = 0 -> {<<"x", 0>>, <<"y", 1>>}
       [] d = 3 -> {<<"x", 0>>}
       [] OTHER -> {<<"x", 0>>, <<"w", 0>>, <<"y", 1>>, <<"z", 1>>}]

\* names the command line may give
ArgNames == {<<"a", 0>>, <<"c", 0>>, <<"x", 0>>, <<"y", 1>>}

ArgLists == UNION {[1..n -> ArgNames] : n \in 1..MaxArgs}

\* the subdirectory of d called nm, or NoDir
ChildDir(d, nm) ==
  IF \E c \in SubDirs : ParentOf[c] = d /\ DirBase[c] = nm[1] /\ nm[2] = 0
  THEN CHOOSE c \in SubDirs : ParentOf[c] = d /\ DirBase[c] = nm[1]
  ELSE NoDir

isdot(nm) == nm[1] \in {".", ".."}

\* stat(name) relative to directory d: "dir", "file", or "none" (stat fails)
Stat(files, d, nm) ==
  IF isdot(nm) \/ ChildDir(d, nm) # NoDir THEN "dir"
  ELSE IF nm \in files[d] THEN "file"
  ELSE "none"

\* isDirectory(argv[start], filesize) as main uses it
isDirectory(files, d, nm) == Stat(files, d, nm) = "dir"

\* the files of directory d with the given base, fewest suffixes first
RECURSIVE FilesOfBase(_, _, _, _)
FilesOfBase(files, d, base, k) ==
  IF k > MaxArgs + 1 THEN <<>>
  ELSE (IF <<base, k>> \in files[d] THEN <<(<<base, k>>)>> ELSE <<>>)
         \o FilesOfBase(files, d, base, k + 1)

RECURSIVE SlotEntries(_, _, _)
SlotEntries(files, d, slots) ==
  IF slots = <<>> THEN <<>>
  ELSE (IF ChildDir(d, <<Head(slots), 0>>) # NoDir
        THEN <<(<<Head(slots), 0>>)>>
        ELSE FilesOfBase(files, d, Head(slots), 0))
         \o SlotEntries(files, d, Tail(slots))

\* what readdir returns for directory d, in order
Listing(files, d) == <<(<<".", 0>>), (<<"..", 0>>)>> \o SlotEntries(files, d, Slots(d))

\* the suffix filter: in compress mode a name carrying SUFFIX is discarded, in
\* decompress mode a name lacking it
discardIt(nm, comp) == IF comp THEN nm[2] >= 1 ELSE nm[2] = 0

(***************************************************************************)
(* doParallelWork as the walker and main see it: its outcome and what it   *)
(* leaves in the directory.                                                *)
(*   "ok"       returns true                                               *)
(*   "fault"    returns false before an output file exists                 *)
(*   "faultout" decompression returns false after the output was allocated *)
(*   "fail"     returns false: the path cannot be mapped                   *)
(*   "abort"    the process terminates inside the call                     *)
(***************************************************************************)
WorkOutcomes(files, d, nm) ==
  IF Stat(files, d, nm) # "file" THEN {"fail"}
  ELSE {"ok"}
         \cup (IF faults < MaxFaults THEN {"fault"} ELSE {})
         \cup (IF faults < MaxFaults /\ ~COMP /\ nm[2] >= 1 THEN {"faultout"} ELSE {})
         \cup (IF COMP \/ nm[2] = 0 THEN {"abort"} ELSE {})

\* the files of directory d after doParallelWork(nm) ended with outcome o; the
\* output of decompressing a name without SUFFIX is not a name of the model
WorkEffect(files, d, nm, o) ==
  LET out     == IF COMP THEN <<nm[1], nm[2] + 1>> ELSE <<nm[1], nm[2] - 1>>
      named   == COMP \/ nm[2] >= 1
      created == IF named /\ o \in {"ok", "faultout"} THEN {out} ELSE {}
      removed == IF named /\ o = "ok" /\ REMOVE_ORIGIN THEN {nm} ELSE {}
  IN  [files EXCEPT ![d] = (@ \ removed) \cup created]

WorkCharge(o) == faults' = IF o \in {"fault", "faultout"} THEN faults + 1 ELSE faults

(***************************************************************************)
(* walkDirParallel, one frame of `stack` per active call.                  *)
(***************************************************************************)
\* the other variables of the block engine, which the walker leaves alone
engineVars ==
  <<B, BIG_FILE_SIZE, num_threads, pc, disk, mapped, numBlocks, blockSize,
    blockInfos, compressedBlocks, blockPtr, totalSize, compressionSuccess,
    decompressionSuccess, task, success, compressedSize, cres, dres>>

mainVars == <<argv, argi, msuccess, exitStatus, results>>

Frame(nm) ==
  [dname |-> nm, dir |-> NoDir, pc |-> "enter", listing |-> <<>>, idx |-> 1,
   files |-> <<>>, fst |-> <<>>, res |-> <<>>, success |-> TRUE]

InWalk == mpc = "walk" /\ stack # <<>>

TopFrame == stack[Len(stack)]

\* the iterations of the top frame's parallel loop
FileIdx == IF stack = <<>> THEN {} ELSE 1..Len(TopFrame.files)

\* the top frame returns r
Pop(r) ==
  /\ stack' = SubSeq(stack, 1, Len(stack) - 1)
  /\ ret' = r

SetTop(f) == stack' = [stack EXCEPT ![Len(stack)] = f]

\* what chdir(dname) and opendir(".") can do
EnterOutcomes(target) ==
  IF target = NoDir THEN {"chdir"}
  ELSE {"ok"} \cup (IF faults < MaxFaults THEN {"chdir", "opendir"} ELSE {})

\* chdir(dname), opendir(".")
WalkEnter ==
  /\ InWalk
  /\ TopFrame.pc = "enter"
  /\ LET target == ChildDir(cwd, TopFrame.dname) IN
     \E o \in EnterOutcomes(target) :
       /\ faults' = IF o # "ok" /\ target # NoDir THEN faults + 1 ELSE faults
       /\ cwd' = IF o = "chdir" THEN cwd ELSE target
       /\ IF o = "ok"
          THEN /\ SetTop([TopFrame EXCEPT !.dir = target, !.pc = "loop",
                                          !.listing = Listing(fs, target)])
               /\ UNCHANGED ret
          ELSE Pop("fail")
  /\ UNCHANGED <<engineVars, mainVars, REMOVE_ORIGIN, COMP, mpc, fs, worked>>

\* WalkEntry passing over a subdirectory without walking it
WalkEntry_skipdir ==
  /\ InWalk
  /\ TopFrame.pc = "loop"
  /\ TopFrame.idx <= Len(TopFrame.listing)
  /\ LET f    == TopFrame
         nm   == f.listing[f.idx]
         kind == Stat(fs, cwd, nm)
     IN \E ok \in EnvOutcomes :
          /\ Charge(ok)
          /\ IF ~ok \/ kind = "none"
             THEN Pop("fail")
             ELSE /\ UNCHANGED ret
                  /\ IF kind = "dir" \/ discardIt(nm, COMP)
                     THEN SetTop([f EXCEPT !.idx = @ + 1])
                     ELSE SetTop([f EXCEPT !.idx = @ + 1,
                                           !.files = Append(@, nm)])
  /\ UNCHANGED <<engineVars, mainVars, REMOVE_ORIGIN, COMP, mpc, cwd, fs, worked>>

\* one turn of the readdir loop: stat the entry, recurse into a subdirectory,
\* skip or collect a regular file
WalkEntry ==
  /\ InWalk
  /\ TopFrame.pc = "loop"
  /\ TopFrame.idx <= Len(TopFrame.listing)
  /\ LET f    == TopFrame
         nm   == f.listing[f.idx]
         kind == Stat(fs, cwd, nm)
     IN \E ok \in EnvOutcomes :
          /\ Charge(ok)
          /\ IF ~ok \/ kind = "none"
             THEN Pop("fail")
             ELSE /\ UNCHANGED ret
                  /\ IF kind = "dir"
                     THEN IF isdot(nm)
                          THEN SetTop([f EXCEPT !.idx = @ + 1])
                          ELSE stack' = [stack EXCEPT ![Len(stack)].pc = "call"]
                                          \o <<Frame(nm)>>
                     ELSE IF discardIt(nm, COMP)
                          THEN SetTop([f EXCEPT !.idx = @ + 1])
                          ELSE SetTop([f EXCEPT !.idx = @ + 1,
                                                !.files = Append(@, nm)])
  /\ UNCHANGED <<engineVars, mainVars, REMOVE_ORIGIN, COMP, mpc, cwd, fs, worked>>

\* WalkReturned going on without chdir("..")
WalkReturned_nochdir ==
  /\ InWalk
  /\ TopFrame.pc = "call"
  /\ ret # "none"
  /\ IF ret = "ok"
     THEN \E ok \in EnvOutcomes :
            /\ Charge(ok)
            /\ cwd' = cwd
            /\ IF ok
               THEN /\ SetTop([TopFrame EXCEPT !.idx = @ + 1, !.pc = "loop"])
                    /\ ret' = "none"
               ELSE Pop("fail")
     ELSE /\ Pop("fail")
          /\ UNCHANGED <<faults, cwd>>
  /\ UNCHANGED <<engineVars, mainVars, REMOVE_ORIGIN, COMP, mpc, fs, worked>>

\* WalkReturned going on with the next entry whatever the call returned
WalkReturned_continue ==
  /\ InWalk
  /\ TopFrame.pc = "call"
  /\ ret # "none"
  /\ \E ok \in EnvOutcomes :
       /\ Charge(ok)
       /\ IF ok
          THEN /\ cwd' = ParentOf[cwd]
               /\ SetTop([TopFrame EXCEPT !.idx = @ + 1, !.pc = "loop",
                                          !.success = (ret = "ok")])
               /\ ret' = "none"
          ELSE /\ cwd' = cwd
               /\ Pop("fail")
  /\ UNCHANGED <<engineVars, mainVars, REMOVE_ORIGIN, COMP, mpc, fs, worked>>

\* the recursive call returned: chdir("..") and go on, or return false
WalkReturned ==
  /\ InWalk
  /\ TopFrame.pc = "call"
  /\ ret # "none"
  /\ IF ret = "ok"
     THEN \E ok \in EnvOutcomes :
            /\ Charge(ok)
            /\ IF ok
               THEN /\ cwd' = ParentOf[cwd]
                    /\ SetTop([TopFrame EXCEPT !.idx = @ + 1, !.pc = "loop"])
                    /\ ret' = "none"
               ELSE /\ cwd' = cwd
                    /\ Pop("fail")
     ELSE /\ Pop("fail")
          /\ UNCHANGED <<faults, cwd>>
  /\ UNCHANGED <<engineVars, mainVars, REMOVE_ORIGIN, COMP, mpc, fs, worked>>

\* readdir returned NULL: the errno test, closedir, and the start of the
\* parallel loop over the collected files
WalkReadEnd ==
  /\ InWalk
  /\ TopFrame.pc = "loop"
  /\ TopFrame.idx > Len(TopFrame.listing)
  /\ \E ok \in EnvOutcomes :
       /\ Charge(ok)
       /\ IF ok
          THEN /\ SetTop([TopFrame EXCEPT
                            !.pc = "dispatch",
                            !.fst = [i \in 1..Len(TopFrame.files) |-> "todo"],
                            !.res = [i \in 1..Len(TopFrame.files) |-> "none"],
                            !.success = TRUE])
               /\ UNCHANGED ret
          ELSE Pop("fail")
  /\ UNCHANGED <<engineVars, mainVars, REMOVE_ORIGIN, COMP, mpc, cwd, fs, worked>>

\* an iteration of the parallel loop calls doParallelWork
WalkFileStart(i) ==
  /\ InWalk
  /\ TopFrame.pc = "dispatch"
  /\ TopFrame.fst[i] = "todo"
  /\ SetTop([TopFrame EXCEPT !.fst[i] = "run"])
  /\ worked' = worked \cup {<<cwd, TopFrame.files[i]>>}
  /\ UNCHANGED <<engineVars, mainVars, REMOVE_ORIGIN, COMP, mpc, cwd, fs, faults, ret>>

\* doParallelWork returns; on false the iteration clears `success` under the
\* critical section
WalkFileEnd(i) ==
  /\ InWalk
  /\ TopFrame.pc = "dispatch"
  /\ TopFrame.fst[i] = "run"
  /\ LET nm == TopFrame.files[i] IN
     \E o \in WorkOutcomes(fs, cwd, nm) :
       /\ WorkCharge(o)
       /\ IF o = "abort"
          THEN /\ mpc' = "aborted"
               /\ UNCHANGED <<fs, stack>>
          ELSE /\ mpc' = mpc
               /\ fs' = WorkEffect(fs, cwd, nm, o)
               /\ SetTop([TopFrame EXCEPT
                            !.fst[i] = "done",
                            !.res[i] = IF o = "ok" THEN "ok" ELSE "fail",
                            !.success = IF o = "ok" THEN @ ELSE FALSE])
  /\ UNCHANGED <<engineVars, mainVars, REMOVE_ORIGIN, COMP, cwd, ret, worked>>

\* WalkJoin returning as soon as the flag is down
WalkJoin_early ==
  /\ InWalk
  /\ TopFrame.pc = "dispatch"
  /\ (~TopFrame.success \/ \A i \in 1..Len(TopFrame.files) : TopFrame.fst[i] = "done")
  /\ Pop(IF TopFrame.success THEN "ok" ELSE "fail")
  /\ UNCHANGED <<engineVars, mainVars, REMOVE_ORIGIN, COMP, mpc, cwd, fs, faults, worked>>

\* end of the parallel loop: return success
WalkJoin ==
  /\ InWalk
  /\ TopFrame.pc = "dispatch"
  /\ \A i \in 1..Len(TopFrame.files) : TopFrame.fst[i] = "done"
  /\ Pop(IF TopFrame.success THEN "ok" ELSE "fail")
  /\ UNCHANGED <<engineVars, mainVars, REMOVE_ORIGIN, COMP, mpc, cwd, fs, faults, worked>>

(***************************************************************************)
(* main: the loop over the inputs.                                         *)
(***************************************************************************)
\* one input: a directory starts a walk, anything else goes to doParallelWork
MainInput ==
  /\ mpc = "loop"
  /\ argi <= Len(argv)
  /\ LET nm == argv[argi] IN
     IF isDirectory(fs, cwd, nm)
     THEN /\ mpc' = "walk"
          /\ stack' = <<Frame(nm)>>
          /\ ret' = "none"
          /\ UNCHANGED <<argi, msuccess, results, fs, faults, worked>>
     ELSE \E o \in WorkOutcomes(fs, cwd, nm) :
            /\ WorkCharge(o)
            /\ worked' = worked \cup {<<cwd, nm>>}
            /\ IF o = "abort"
               THEN /\ mpc' = "aborted"
                    /\ UNCHANGED <<argi, msuccess, results, fs>>
               ELSE /\ mpc' = mpc
                    /\ fs' = WorkEffect(fs, cwd, nm, o)
                    /\ msuccess' = (msuccess /\ o = "ok")
                    /\ results' = Append(results, o = "ok")
                    /\ argi' = argi + 1
            /\ UNCHANGED <<stack, ret>>
  /\ UNCHANGED <<engineVars, REMOVE_ORIGIN, COMP, argv, exitStatus, cwd>>

\* MainWalkDone assigning the result instead of and-ing it into `success`
MainWalkDone_overwrite ==
  /\ mpc = "walk"
  /\ stack = <<>>
  /\ ret # "none"
  /\ msuccess' = (ret = "ok")
  /\ results' = Append(results, ret = "ok")
  /\ argi' = argi + 1
  /\ mpc' = "loop"
  /\ ret' = "none"
  /\ UNCHANGED <<engineVars, REMOVE_ORIGIN, COMP, argv, exitStatus, cwd, fs,
                 stack, faults, worked>>

\* walkDirParallel returned to main
MainWalkDone ==
  /\ mpc = "walk"
  /\ stack = <<>>
  /\ ret # "none"
  /\ msuccess' = (msuccess /\ ret = "ok")
  /\ results' = Append(results, ret = "ok")
  /\ argi' = argi + 1
  /\ mpc' = "loop"
  /\ ret' = "none"
  /\ UNCHANGED <<engineVars, REMOVE_ORIGIN, COMP, argv, exitStatus, cwd, fs,
                 stack, faults, worked>>

\* no input left: the exit status
MainExit ==
  /\ mpc = "loop"
  /\ argi > Len(argv)
  /\ exitStatus' = IF msuccess THEN 0 ELSE -1
  /\ mpc' = "exit"
  /\ UNCHANGED <<engineVars, REMOVE_ORIGIN, COMP, argv, argi, msuccess, results,
                 cwd, fs, stack, ret, faults, worked>>

InitWalk ==
  /\ argv \in ArgLists
  /\ COMP \in BOOLEAN
  /\ REMOVE_ORIGIN \in BOOLEAN
  /\ argi = 1
  /\ mpc = "loop"
  /\ msuccess = TRUE
  /\ exitStatus = 0
  /\ cwd = 0
  /\ fs = InitialFs
  /\ stack = <<>>
  /\ ret = "none"
  /\ results = <<>>
  /\ worked = {}
  /\ faults = 0
  /\ B = <<>>
  /\ BIG_FILE_SIZE = 1
  /\ num_threads = 1
  /\ pc = "idle"
  /\ disk = [orig |-> NoFile, zip |-> NoFile]
  /\ mapped = {}
  /\ numBlocks = 0
  /\ blockSize = 0
  /\ blockInfos = <<>>
  /\ compressedBlocks = <<>>
  /\ blockPtr = <<>>
  /\ totalSize = 0
  /\ compressionSuccess = TRUE
  /\ decompressionSuccess = TRUE
  /\ task = <<>>
  /\ success = <<>>
  /\ compressedSize = <<>>
  /\ cres = "none"
  /\ dres = "none"

NextWalk ==
  \/ MainInput
  \/ MainWalkDone
  \/ MainExit
  \/ WalkEnter
  \/ WalkEntry
  \/ WalkReturned
  \/ WalkReadEnd
  \/ \E i \in FileIdx : WalkFileStart(i)
  \/ \E i \in FileIdx : WalkFileEnd(i)
  \/ WalkJoin

vars ==
  <<B, BIG_FILE_SIZE, num_threads, REMOVE_ORIGIN, COMP, pc, disk, mapped, faults,
    numBlocks, blockSize, blockInfos, compressedBlocks, blockPtr, totalSize,
    compressionSuccess, decompressionSuccess, task, success, compressedSize,
    cres, dres, walkVars>>

Spec == Init /\ [][Next]_vars

SpecWalk == InitWalk /\ [][NextWalk]_vars

\* both kinds of run: one file through the block engine, or main over a tree
InitAll == Init \/ InitWalk

NextAll == Next \/ NextWalk

SpecAll == InitAll /\ [][NextAll]_vars

(***************************************************************************)
(* Properties of the block engine (Spec).                                  *)
(***************************************************************************)
\* least k with k * b >= a
CeilDiv(a, b) == CHOOSE k \in 0..a : k * b >= a /\ (k = 0 \/ (k - 1) * b < a)

ArchiveWritten == disk.zip # NoFile

\* the descriptors of the archive on disk
ArchiveCount == disk.zip[1]
ArchiveDesc(i) == ReadDesc(disk.zip, i)

RECURSIVE PlainSum(_, _)
PlainSum(f, k) == IF k <= 0 THEN 0 ELSE f[k - 1] + PlainSum(f, k - 1)

Returned == pc \in {"w_unmap", "w_ret"}

CodecFailed == \E k \in DOMAIN success : success[k] = "no"

\* C1: with a codec and a file system that do not fail, compressing any buffer
\* B (any threshold, any parallelism) ends in success, and decompressing the
\* archive ends in success with an output equal to B.
RoundTrip ==
  faults = 0 =>
    /\ pc # "aborted"
    /\ (pc = "w_ret" => cres = "ok")
    /\ (pc = "w_ret" /\ ~COMP => dres = "ok" /\ disk.orig = B)

\* C2: the archive's block count is 1 when S <= T and min(ceil(S/T), 2P) when S > T.
BlockCount ==
  ArchiveWritten =>
    ArchiveCount = IF Len(B) <= BIG_FILE_SIZE THEN 1
                   ELSE Min(CeilDiv(Len(B), BIG_FILE_SIZE), 2 * num_threads)

BlockCountWitness ==
  /\ ArchiveWritten
  /\ Len(B) > BIG_FILE_SIZE
  /\ CeilDiv(Len(B), BIG_FILE_SIZE) > 2 * num_threads
  /\ ArchiveCount = 2 * num_threads

\* C3: the originalSize fields of the archive's descriptors sum to the size
\* of the source buffer.
DescriptorSum ==
  ArchiveWritten =>
    PlainSum([i \in 0..(ArchiveCount - 1) |-> ArchiveDesc(i).originalSize],
             ArchiveCount) = Len(B)

DescriptorSumWitness ==
  /\ ArchiveWritten
  /\ ArchiveCount >= 3
  /\ ArchiveDesc(ArchiveCount - 1).originalSize # ArchiveDesc(0).originalSize

\* the output range of block i in multi-block decompression
OutRange(i) ==
  {p \in 0..(SizeMod * 2) :
     /\ OutputOffset(blockInfos, i) <= p
     /\ p < OutputOffset(blockInfos, i) + blockInfos[i].originalSize}

\* C4: in multi-block decompression the output ranges of distinct blocks are
\* disjoint and together are exactly [0, totalSize), the allocated size.
DisjointOffsets ==
  (~COMP /\ pc = "d_region") =>
    /\ \A i, j \in Blocks : i # j => OutRange(i) \cap OutRange(j) = {}
    /\ UNION {OutRange(i) : i \in Blocks} = 0..(totalSize - 1)
    /\ Len(disk.orig) = totalSize

DisjointOffsetsWitness ==
  /\ ~COMP
  /\ pc = "d_region"
  /\ numBlocks >= 3
  /\ \E i \in Blocks : task[i] = "done"
  /\ \E i \in Blocks : blockInfos[i].originalSize # blockInfos[0].originalSize

\* C5: when a region of N >= 2 blocks has been left and the codec call of some
\* block failed, the codec call of every block was made and returned, and the
\* operation returned failure.
FailSlow ==
  (Returned /\ numBlocks >= 2 /\ CodecFailed) =>
    /\ \A i \in Blocks : task[i] = "done" /\ success[i] \in {"yes", "no"}
    /\ (IF COMP THEN cres ELSE dres) = "fail"

FailSlowWitness ==
  /\ Returned
  /\ COMP
  /\ numBlocks >= 3
  /\ CodecFailed
  /\ \E i \in Blocks : success[i] = "yes"

\* C8: the source is removed only with the removal flag set and after the
\* operation succeeded; on a failure it stays as it was.
RemoveOnlyOnSuccess ==
  /\ disk.orig = NoFile => REMOVE_ORIGIN /\ cres = "ok"
  /\ cres = "fail" => disk.orig = B
  /\ (~COMP /\ disk.zip = NoFile) => REMOVE_ORIGIN /\ dres = "ok"
  /\ (~COMP /\ dres = "fail") => disk.zip # NoFile
  /\ (~REMOVE_ORIGIN /\ cres = "ok") => disk.zip # NoFile

RemoveOnlyOnSuccessWitness ==
  /\ REMOVE_ORIGIN
  /\ ~COMP
  /\ pc = "w_ret"
  /\ dres = "fail"
  /\ CodecFailed
  /\ disk.zip # NoFile

\* C9: once a codec call of a compression has failed, the archive file is
\* never opened or written, and the operation returns failure.
NoArchiveOnCodecFailure ==
  (COMP /\ CodecFailed) =>
    /\ disk.zip = NoFile
    /\ pc # "c_write"
    /\ (Returned => cres = "fail")

NoArchiveOnCodecFailureWitness ==
  /\ COMP
  /\ pc = "w_ret"
  /\ numBlocks >= 2
  /\ CodecFailed
  /\ \E i \in Blocks : success[i] = "yes"


\* the part of the source descriptors 0..i-1 of the archive account for
ArchiveOffset(i) ==
  PlainSum([j \in 0..(i - 1) |-> ArchiveDesc(j).originalSize], i)

\* the source bytes descriptor i of the archive stands for
ArchiveSourceOf(i) ==
  SubSeq(B, ArchiveOffset(i) + 1, ArchiveOffset(i) + ArchiveDesc(i).originalSize)

\* where payload i starts in the archive when the payloads follow the
\* descriptors in ascending order (1-based)
ArchivePayloadStart(i) ==
  2 + 3 * ArchiveCount
    + PlainSum([j \in 0..(i - 1) |-> ArchiveDesc(j).compressedSize], i)

\* C11: the archive holds the block count, then the descriptors with
\* blockIndex 0, 1, ..., numBlocks-1 in that order, then the payloads in the
\* same order, payload i being the compressed form of source block i and
\* exactly compressedSize(i) bytes long, whatever order the tasks ran in.
ArchiveOrder ==
  ArchiveWritten =>
    /\ ArchiveCount >= 1
    /\ \A i \in 0..(ArchiveCount - 1) :
         /\ ArchiveDesc(i).blockIndex = i
         /\ SubSeq(disk.zip, ArchivePayloadStart(i),
                   ArchivePayloadStart(i) + ArchiveDesc(i).compressedSize - 1)
              = Deflate(ArchiveSourceOf(i))
    /\ Len(disk.zip) = ArchivePayloadStart(ArchiveCount) - 1

ArchiveOrderWitness ==
  /\ ArchiveWritten
  /\ ArchiveCount >= 3
  /\ ArchiveDesc(ArchiveCount - 1).compressedSize # ArchiveDesc(0).compressedSize
  /\ ArchiveSourceOf(0) # ArchiveSourceOf(1)

\* the source range of block i as the task computes it
SrcRange(i) ==
  {p \in 0..(SizeMod * 2) :
     /\ OffsetOf(i, blockSize) <= p
     /\ p < OffsetOf(i, blockSize)
              + CurrentBlockSize(i, numBlocks, blockSize, Len(B))}

\* C12: in multi-block compression every block's offset i*blockSize is at
\* most S, the last block's length S - (numBlocks-1)*blockSize does not
\* underflow, and the blocks' ranges lie in [0, S), are pairwise disjoint and
\* cover [0, S).
PartitionInBounds ==
  (COMP /\ pc = "c_region") =>
    /\ blockSize = CeilDiv(Len(B), numBlocks)
    /\ \A i \in Blocks : i * blockSize <= Len(B)
    /\ (numBlocks - 1) * blockSize <= Len(B)
    /\ \A i \in Blocks :
         CurrentBlockSize(i, numBlocks, blockSize, Len(B))
           = IF i < numBlocks - 1 THEN blockSize
             ELSE Len(B) - (numBlocks - 1) * blockSize
    /\ \A i, j \in Blocks : i # j => SrcRange(i) \cap SrcRange(j) = {}
    /\ UNION {SrcRange(i) : i \in Blocks} = 0..(Len(B) - 1)

\* a task of the block region has not completed
RegionBusy == \E i \in Blocks : task[i] # "done"

\* a doParallelWork call of the top frame's parallel loop has not completed
DispatchBusy ==
  /\ InWalk
  /\ TopFrame.pc = "dispatch"
  /\ \E i \in FileIdx : TopFrame.fst[i] # "done"

\* C13: while a task of a parallel region has not completed, the enclosing
\* frame takes no step of its own: the compression frame does not leave the
\* region, open or write the archive, or return; the decompression frame does
\* not unmap the output, remove the archive, or return; the walker frame does
\* not return.  (A step in which the process terminates inside a task is no
\* step of the frame.)
JoinBarrier ==
  [][
     /\ (pc = "c_region" /\ RegionBusy /\ pc' # "aborted")
           => (pc' = "c_region" /\ disk' = disk /\ mapped' = mapped /\ cres' = cres)
     /\ (pc = "d_region" /\ RegionBusy)
           => (pc' = "d_region" /\ disk'.zip = disk.zip /\ mapped' = mapped
                 /\ dres' = dres)
     /\ (DispatchBusy /\ mpc' # "aborted")
           => (Len(stack') = Len(stack) /\ stack'[Len(stack)].pc = "dispatch"
                 /\ ret' = ret)
    ]_vars

JoinBarrierWitness ==
  /\ pc = "d_region"
  /\ ~decompressionSuccess
  /\ \E i \in Blocks : task[i] = "todo"
  /\ \E i \in Blocks : task[i] = "done"

\* the tasks of the block region that take the step
Stepping == {j \in Blocks : task'[j] # task[j]}

\* task j is at its critical section and leaves it in the step
InCritical(j) == task[j] = "run" /\ task'[j] = "done" /\ success[j] = "no"

\* the step of a compression region writes the shared containers at the
\* index of the task taking it, and the flag in a critical section
CompressWrites ==
  /\ DOMAIN blockInfos' = DOMAIN blockInfos
  /\ DOMAIN compressedBlocks' = DOMAIN compressedBlocks
  /\ Cardinality(Stepping) <= 1
  /\ \A j \in Blocks :
       (blockInfos'[j] # blockInfos[j] \/ compressedBlocks'[j] # compressedBlocks[j])
         => j \in Stepping
  /\ compressionSuccess' # compressionSuccess => \E j \in Blocks : InCritical(j)

\* the step of a decompression region writes the output mapping inside the
\* output range of the task taking it, and the flag in a critical section
DecompressWrites ==
  /\ Len(disk'.orig) = Len(disk.orig)
  /\ blockInfos' = blockInfos
  /\ Cardinality(Stepping) <= 1
  /\ \A i, j \in Blocks : i # j => OutRange(i) \cap OutRange(j) = {}
  /\ \A p \in 1..Len(disk.orig) :
       disk'.orig[p] # disk.orig[p]
         => \E j \in Stepping : (p - 1) \in OutRange(j)
  /\ decompressionSuccess' # decompressionSuccess => \E j \in Blocks : InCritical(j)

\* the step of a file-dispatch region writes the frame's flag in the critical
\* section of an iteration whose doParallelWork call returned
DispatchWrites ==
  stack'[Len(stack)].success # TopFrame.success
    => \E i \in FileIdx : TopFrame.fst[i] = "run" /\ stack'[Len(stack)].fst[i] = "done"

\* C14: during a parallel region the failure flag is written only inside a
\* critical section, and the shared containers are sized before the region
\* and written by task i only at index i (blockInfos, compressedBlocks) or
\* inside task i's output range (the output mapping), the ranges of distinct
\* tasks being disjoint.
RaceFree ==
  [][
     /\ (pc = "c_region" /\ pc' = "c_region") => CompressWrites
     /\ (pc = "d_region" /\ pc' = "d_region") => DecompressWrites
     /\ (DispatchBusy /\ Len(stack') = Len(stack)) => DispatchWrites
    ]_vars

RaceFreeWitness ==
  /\ pc = "d_region"
  /\ numBlocks >= 3
  /\ Cardinality({i \in Blocks : success[i] = "yes"}) >= 2
  /\ \E i \in Blocks : task[i] = "run"
  /\ \E p \in 1..Len(disk.orig) : disk.orig[p] # 0

(***************************************************************************)
(* Properties of the walker and the driver (SpecWalk).                     *)
(***************************************************************************)
\* C6: no name the suffix filter discards is ever passed to doParallelWork: in
\* compress mode none carrying SUFFIX, in decompress mode none lacking it.
EligibilityFilter ==
  \A w \in worked : ~discardIt(w[2], COMP)

\* C7: a frame whose recursive call returned failure returns failure in its
\* next step: the frame is gone, and no file was passed to doParallelWork.
SubdirFailureAborts ==
  [][(InWalk /\ TopFrame.pc = "call" /\ ret = "fail") =>
       /\ stack' = SubSeq(stack, 1, Len(stack) - 1)
       /\ ret' = "fail"
       /\ worked' = worked
       /\ fs' = fs]_vars

SubdirFailureAbortsWitness ==
  /\ InWalk
  /\ TopFrame.pc = "call"
  /\ ret = "fail"
  /\ TopFrame.files # <<>>
  /\ TopFrame.idx < Len(TopFrame.listing)

\* C10: at exit every input has been processed, and the exit status is success
\* exactly when every input's operation returned success.
BatchAggregation ==
  mpc = "exit" =>
    /\ Len(results) = Len(argv)
    /\ (exitStatus = 0) <=> (\A k \in 1..Len(results) : results[k])

BatchAggregationWitness ==
  /\ mpc = "exit"
  /\ Len(argv) >= 2
  /\ results[1] = FALSE
  /\ results[2] = TRUE
  /\ exitStatus # 0

\* every frame but the innermost waits in its recursive call, and a frame
\* dispatching files has read its whole listing
StackShape(st) ==
  \A k \in 1..Len(st) :
    /\ k < Len(st) => st[k].pc = "call"
    /\ st[k].pc = "dispatch" => st[k].idx > Len(st[k].listing)

\* the top frame goes past the entry it is at, which is a subdirectory
PassesSubdir ==
  /\ InWalk
  /\ Len(stack') = Len(stack)
  /\ TopFrame.idx <= Len(TopFrame.listing)
  /\ stack'[Len(stack)].idx > TopFrame.idx
  /\ ~isdot(TopFrame.listing[TopFrame.idx])
  /\ Stat(fs, cwd, TopFrame.listing[TopFrame.idx]) = "dir"

\* C15: the walk is sequential and depth-first: only the innermost frame is
\* active, the others wait in their recursive call; a frame dispatches files
\* only after its readdir loop ended, and the loop goes past a subdirectory
\* only when the walk of that subdirectory returned, a walk returning success
\* only from the end of its own dispatch; so at most one frame dispatches.
WalkerOrdering ==
  [][
     /\ StackShape(stack')
     /\ PassesSubdir => (TopFrame.pc = "call" /\ ret = "ok")
     /\ (ret' = "ok" /\ ret # "ok")
          => (InWalk /\ TopFrame.pc = "dispatch" /\ ~DispatchBusy
                /\ Len(stack') = Len(stack) - 1)
     /\ worked' # worked
          => (mpc = "loop" \/ (InWalk /\ TopFrame.pc = "dispatch"))
    ]_vars

WalkerOrderingWitness ==
  /\ InWalk
  /\ Len(stack) = 1
  /\ TopFrame.pc = "dispatch"
  /\ TopFrame.dir = 1
  /\ \E i \in FileIdx : TopFrame.fst[i] = "run"
  /\ \E w \in worked : w[1] = 2
  /\ \E w \in worked : w[1] = 3

\* the entries of a listing that are regular files the suffix filter keeps
RECURSIVE Eligible(_, _)
Eligible(d, listing) ==
  IF listing = <<>> THEN <<>>
  ELSE (IF ~isdot(Head(listing)) /\ ChildDir(d, Head(listing)) = NoDir
           /\ ~discardIt(Head(listing), COMP)
        THEN <<Head(listing)>> ELSE <<>>)
         \o Eligible(d, Tail(listing))

\* the top frame as the step leaves it
TopFrameNext == stack'[Len(stack)]

\* the frame enters its parallel loop with the eligible files of its
\* directory, each once, no iteration started
DispatchStarts ==
  /\ TopFrameNext.files = Eligible(TopFrame.dir, TopFrame.listing)
  /\ \A i, j \in 1..Len(TopFrameNext.files) :
       i # j => TopFrameNext.files[i] # TopFrameNext.files[j]
  /\ \A i \in 1..Len(TopFrameNext.files) : TopFrameNext.fst[i] = "todo"

\* an iteration only goes from not started to calling doParallelWork, and
\* from there to ended
DispatchAdvances ==
  /\ TopFrameNext.files = TopFrame.files
  /\ \A i \in FileIdx :
       TopFrameNext.fst[i] # TopFrame.fst[i]
         => \/ /\ TopFrame.fst[i] = "todo"
               /\ TopFrameNext.fst[i] = "run"
               /\ <<cwd, TopFrame.files[i]>> \in worked'
            \/ /\ TopFrame.fst[i] = "run"
               /\ TopFrameNext.fst[i] = "done"

\* the frame returns with every iteration ended, success exactly when every
\* doParallelWork call returned success
DispatchReturns ==
  /\ \A i \in FileIdx : TopFrame.fst[i] = "done"
  /\ ret' \in {"ok", "fail"}
  /\ (ret' = "ok") <=> (\A i \in FileIdx : TopFrame.res[i] = "ok")

\* C16: a frame that reaches its parallel loop has collected exactly the
\* eligible files of its directory; each is passed to doParallelWork once
\* (its iteration starts once and ends once, whatever the flag says), and
\* when the frame returns every iteration has ended and the value returned is
\* success exactly when every doParallelWork call returned success.
DirAggregation ==
  [][
     /\ (InWalk /\ TopFrame.pc = "loop" /\ Len(stack') = Len(stack)
           /\ TopFrameNext.pc = "dispatch") => DispatchStarts
     /\ (InWalk /\ TopFrame.pc = "dispatch" /\ Len(stack') = Len(stack))
          => DispatchAdvances
     /\ (InWalk /\ TopFrame.pc = "dispatch" /\ Len(stack') < Len(stack))
          => DispatchReturns
    ]_vars

DirAggregationWitness ==
  /\ InWalk
  /\ TopFrame.pc = "dispatch"
  /\ Len(TopFrame.files) >= 2
  /\ TopFrame.res[1] = "fail"
  /\ TopFrame.fst[2] = "todo"

\* the run is between mapFile and unmapFile of doParallelWork
InWork ==
  pc \in {"c_enter", "c_region", "c_write", "d_enter", "d_single", "d_region",
          "w_unmap"}

\* C17: the source mapping is live from mapFile to the unmapFile of
\* doParallelWork and released there, once, whatever the operation returned;
\* the output mapping of a decompression is released once by
\* decompressDataParallel on its success and its failure path; nothing is
\* mapped when doParallelWork returns.
MappingsReleased ==
  [][
     /\ InWork => "src" \in mapped
     /\ pc = "w_unmap" => (pc' = "w_ret" /\ mapped' = mapped \ {"src"})
     /\ pc' = "w_ret" => mapped' = {}
     /\ (pc \in {"d_single", "d_region"} /\ pc' = "w_unmap")
          => ("out" \in mapped /\ mapped' = mapped \ {"out"})
     /\ (pc \in {"d_single", "d_region"} /\ pc' = pc) => "out" \in mapped'
     /\ pc' = "w_unmap" => mapped' = {"src"}
    ]_vars

MappingsReleasedWitness ==
  /\ pc = "w_ret"
  /\ ~COMP
  /\ dres = "fail"
  /\ numBlocks = 1
  /\ CodecFailed
  /\ mapped = {}

\* the size the descriptors read by decompressDataParallel call for
DescribedSize ==
  PlainSum([i \in Blocks |-> blockInfos[i].originalSize], numBlocks)

\* the output file exists with the size the descriptors call for
OutputSized ==
  /\ disk.orig # NoFile
  /\ Len(disk.orig) = DescribedSize

\* C18: while blocks are decompressed the output file exists, sized to the
\* sum of the descriptors' originalSize (the one originalSize in the
\* single-block path); when a block failed to decompress the operation
\* returns failure and the output file is still there with that size.
PartialOutputKept ==
  /\ (~COMP /\ pc \in {"d_single", "d_region"}) => OutputSized
  /\ (~COMP /\ CodecFailed /\ Returned) => (dres = "fail" /\ OutputSized)

PartialOutputKeptWitness ==
  /\ ~COMP
  /\ pc = "w_ret"
  /\ numBlocks >= 3
  /\ CodecFailed
  /\ disk.orig # B
  /\ \E p \in 1..Len(disk.orig) : disk.orig[p] # 0

\* C19: whenever a walkDirParallel frame examines an entry of its directory
\* or dispatches one of its files, the current directory is that directory,
\* at every depth: each successful recursive walk is followed by a return to
\* the parent, and every file is handed to doParallelWork from the directory
\* of the frame that collected it.
ContextMatchesFrame ==
  /\ \A k \in 1..Len(stack) :
       (mpc = "walk" /\ stack[k].pc \in {"loop", "dispatch"}) => cwd = stack[k].dir
  /\ \A k \in 2..Len(stack) :
       (mpc = "walk" /\ stack[k].pc # "enter")
         => stack[k].dir = ChildDir(stack[k - 1].dir, stack[k].dname)

ContextMatchesFrameWitness ==
  /\ InWalk
  /\ Len(stack) = 1
  /\ TopFrame.pc = "loop"
  /\ TopFrame.dir = 1
  /\ TopFrame.idx > 1
  /\ TopFrame.idx <= Len(TopFrame.listing)
  /\ TopFrame.listing[TopFrame.idx - 1] = <<"d", 0>>
  /\ cwd = 1

\* C20: whenever main is about to take an input, the current directory is
\* the one the program was started in, whatever the inputs before were and
\* however they ended.
InputsIndependent ==
  (mpc = "loop" /\ argi <= Len(argv)) => cwd = 0

====
